---- MODULE Spec2Model ----
(***************************************************************************)
(* A model of the Chip8 interpreter class of Chip8.hpp / Chip8.cpp.        *)
(*                                                                         *)
(* The machine state is the set of fields of class Chip8.  Every           *)
(* instruction handler OP_xxxx of Chip8.cpp is an operator from a machine  *)
(* record to the set of machine records the handler can leave behind (one  *)
(* record for a deterministic handler, several where the handler draws a   *)
(* random byte or indexes an array out of its bounds).  The source holds   *)
(* the handlers but no fetch/decode loop: Fetch and Decode follow the      *)
(* documented cycle (big-endian opcode at pc, pc advanced by 2 before the  *)
(* handler runs), which is also what the handlers assume (a skip adds 2,   *)
(* a call pushes the already advanced pc).                                 *)
(***************************************************************************)
EXTENDS Integers, Naturals, Sequences, FiniteSets, TLC

VARIABLES
    memory,         \* uint8_t memory[4096]; only font bytes are initialised
    registers,      \* uint8_t registers[16]{}
    pcRegister,     \* uint16_t pcRegister{}
    indexRegister,  \* uint16_t indexRegister{}
    stack,          \* uint16_t stack[16]{}
    sp,             \* uint8_t sp{}
    timer,          \* uint8_t timer{}
    soundTimer,     \* uint8_t soundTimer{}
    keypad,         \* uint8_t keypad[16]{}
    display,        \* uint32_t display[32 * 64]{}: the cells that are not 0
    opcode,         \* uint16_t opcode{}
    oob,            \* history: number of operations that indexed an array
                    \*          out of its bounds
    last,           \* history: the operation executed last
    prev,           \* history: the operation executed before last
    outstanding,    \* history: calls (2nnn) not yet matched by a return (00EE)
    unmatched,      \* history: a return was executed with no call outstanding
    pushed,         \* history: the stack slots some call has written
    saved,          \* history: the return addresses of the calls not yet
                    \*          returned from, the most recent last
    deepest,        \* history: the largest number of calls outstanding so far
    drawn,          \* history: the byte randByte(randGen) returned to the
                    \*          last operation where that byte is followed,
                    \*          -1 otherwise
    steps           \* history: number of operations executed so far

machine == <<memory, registers, pcRegister, indexRegister, stack, sp, timer,
             soundTimer, keypad, display, opcode>>
vars == <<memory, registers, pcRegister, indexRegister, stack, sp, timer,
          soundTimer, keypad, display, opcode, oob, last, prev, outstanding,
          unmatched, pushed, saved, deepest, drawn, steps>>

----------------------------------------------------------------------------
(* Program constants.                                                      *)

START_ADDRESS == 512
FONT_ADDRESS == 80
FIRST_TWELVE_BITS == 4095
FONTSET_SIZE == 80
REGISTER_VF == 15
REGISTER_V0 == 0
MEMORY_SIZE == 4096
NUM_REGISTERS == 16
STACK_SIZE == 16
NUM_KEYS == 16

Byte == 256
Word == 65536

fontset ==
    << 240, 144, 144, 144, 240,
        32,  96,  32,  32, 112,
       240,  16, 240, 128, 240,
       240,  16, 240,  16, 240,
       144, 144, 240,  16,  16,
       240, 128, 240,  16, 240,
       240, 128, 240, 144, 240,
       240,  16,  32,  64,  64,
       240, 144, 240, 144, 240,
       240, 144, 240,  16, 240,
       240, 144, 240, 144, 144,
       224, 144, 224, 144, 224,
       240, 128, 128, 128, 240,
       224, 144, 144, 144, 224,
       240, 128, 240, 128, 240,
       240, 128, 240, 128, 128 >>

----------------------------------------------------------------------------
(* Bounds of the model.                                                    *)

\* Operations (loads and instructions) of one behaviour of Spec.
MaxSteps == 4
\* Operations (loads and instructions) of one behaviour of SpecLoad.
MaxLoadSteps == 3
\* Instructions of one behaviour of SpecStack.
MaxStackSteps == 17
\* Out-of-bounds array accesses of one behaviour of SpecStack.
MaxOob == 2

----------------------------------------------------------------------------
(* Bit operations on unsigned integers.                                    *)

RECURSIVE BitAnd(_, _)
BitAnd(a, b) ==
    IF a = 0 \/ b = 0 THEN 0
    ELSE (IF a % 2 = 1 /\ b % 2 = 1 THEN 1 ELSE 0) + 2 * BitAnd(a \div 2, b \div 2)

RECURSIVE BitOr(_, _)
BitOr(a, b) ==
    IF a = 0 THEN b
    ELSE IF b = 0 THEN a
    ELSE (IF a % 2 = 1 \/ b % 2 = 1 THEN 1 ELSE 0) + 2 * BitOr(a \div 2, b \div 2)

RECURSIVE BitXor(_, _)
BitXor(a, b) ==
    IF a = 0 THEN b
    ELSE IF b = 0 THEN a
    ELSE (IF a % 2 # b % 2 THEN 1 ELSE 0) + 2 * BitXor(a \div 2, b \div 2)

\* The operand fields the handlers cut out of the opcode.
FieldX(m) == BitAnd(3840, m.opcode) \div 256      \* (0x0F00U & opcode) >> 8U
FieldY(m) == BitAnd(240, m.opcode) \div 16        \* (0x00F0U & opcode) >> 4U
FieldKK(m) == BitAnd(255, m.opcode)               \* opcode & 0x00FFU
FieldNNN(m) == BitAnd(m.opcode, FIRST_TWELVE_BITS)

----------------------------------------------------------------------------
(* The object as bytes.  An array index past the end of memory[] or        *)
(* stack[] addresses the bytes of the members declared after it; the       *)
(* members lie in declaration order, 16- and 32-bit members little-endian. *)

OFF_REGISTERS == 4096
OFF_PC == 4112
OFF_INDEX == 4114
OFF_STACK == 4116
OFF_SP == 4148
OFF_TIMER == 4149
OFF_SOUND == 4150
OFF_KEYPAD == 4151
OFF_DISPLAY == 4168
OFF_OPCODE == 12360
OFF_END == 12362

\* Byte n (0 = lowest) of the unsigned value v.
RECURSIVE ByteOf(_, _)
ByteOf(v, n) == IF n = 0 THEN v % Byte ELSE ByteOf(v \div Byte, n - 1)

RECURSIVE Pow256(_)
Pow256(n) == IF n = 0 THEN 1 ELSE Byte * Pow256(n - 1)

\* v with its byte n replaced by b.
WithByte(v, n, b) == v - ByteOf(v, n) * Pow256(n) + b * Pow256(n)

\* display[] is kept as the function from the indices of its nonzero cells
\* to their values; every other cell of the 2048 is 0.
ClearedDisplay == [i \in {} |-> 0]
DisplayCell(d, i) == IF i \in DOMAIN d THEN d[i] ELSE 0
WithDisplayCell(d, i, v) ==
    IF v = 0
    THEN [j \in DOMAIN d \ {i} |-> d[j]]
    ELSE [j \in DOMAIN d \cup {i} |-> IF j = i THEN v ELSE d[j]]

\* The byte at object offset off >= OFF_REGISTERS.
PeekByte(m, off) ==
    IF off < OFF_PC THEN m.registers[off - OFF_REGISTERS]
    ELSE IF off < OFF_INDEX THEN ByteOf(m.pcRegister, off - OFF_PC)
    ELSE IF off < OFF_STACK THEN ByteOf(m.indexRegister, off - OFF_INDEX)
    ELSE IF off < OFF_SP THEN
        ByteOf(m.stack[(off - OFF_STACK) \div 2], (off - OFF_STACK) % 2)
    ELSE IF off = OFF_SP THEN m.sp
    ELSE IF off = OFF_TIMER THEN m.timer
    ELSE IF off = OFF_SOUND THEN m.soundTimer
    ELSE IF off < OFF_KEYPAD + NUM_KEYS THEN m.keypad[off - OFF_KEYPAD]
    ELSE IF off < OFF_DISPLAY THEN 0
    ELSE IF off < OFF_OPCODE THEN
        ByteOf(DisplayCell(m.display, (off - OFF_DISPLAY) \div 4),
               (off - OFF_DISPLAY) % 4)
    ELSE IF off < OFF_END THEN ByteOf(m.opcode, off - OFF_OPCODE)
    ELSE 0

\* The machine with byte b stored at object offset off >= OFF_REGISTERS.
PokeByte(m, off, b) ==
    IF off < OFF_PC THEN
        [m EXCEPT !.registers[off - OFF_REGISTERS] = b]
    ELSE IF off < OFF_INDEX THEN
        [m EXCEPT !.pcRegister = WithByte(@, off - OFF_PC, b)]
    ELSE IF off < OFF_STACK THEN
        [m EXCEPT !.indexRegister = WithByte(@, off - OFF_INDEX, b)]
    ELSE IF off < OFF_SP THEN
        [m EXCEPT !.stack[(off - OFF_STACK) \div 2] =
                        WithByte(@, (off - OFF_STACK) % 2, b)]
    ELSE IF off = OFF_SP THEN [m EXCEPT !.sp = b]
    ELSE IF off = OFF_TIMER THEN [m EXCEPT !.timer = b]
    ELSE IF off = OFF_SOUND THEN [m EXCEPT !.soundTimer = b]
    ELSE IF off < OFF_KEYPAD + NUM_KEYS THEN
        [m EXCEPT !.keypad[off - OFF_KEYPAD] = b]
    ELSE IF off < OFF_DISPLAY THEN m
    ELSE IF off < OFF_OPCODE THEN
        LET i == (off - OFF_DISPLAY) \div 4
        IN  [m EXCEPT !.display =
                WithDisplayCell(@, i, WithByte(DisplayCell(@, i),
                                               (off - OFF_DISPLAY) % 4, b))]
    ELSE IF off < OFF_END THEN
        [m EXCEPT !.opcode = WithByte(@, off - OFF_OPCODE, b)]
    ELSE m

\* Values an out-of-bounds read may yield besides the neighbouring bytes.
UndefWords == {0, 65535}

\* stack[k] read with k >= STACK_SIZE: the neighbouring bytes, or anything.
OobStackRead(m, k) ==
    { PeekByte(m, OFF_STACK + 2 * k) + Byte * PeekByte(m, OFF_STACK + 2 * k + 1) }
        \cup UndefWords

\* stack[k] = v with k >= STACK_SIZE: the neighbouring bytes are overwritten,
\* or the store is not performed.
OobStackWrite(m, k, v) ==
    { [PokeByte(PokeByte(m, OFF_STACK + 2 * k, v % Byte),
                OFF_STACK + 2 * k + 1, v \div Byte) EXCEPT !.ub = TRUE],
      [m EXCEPT !.ub = TRUE] }

----------------------------------------------------------------------------
(* The instruction handlers of Chip8.cpp.  m is the machine when the       *)
(* handler is entered: m.opcode holds the instruction, m.pcRegister the    *)
(* address after it.                                                       *)

\* (CLS) memset(display, 0, sizeof(display))
OP_00E0(m) == [m EXCEPT !.display = ClearedDisplay]

\* OP_00EE as pcRegister = stack[--sp].
OP_00EE_preDecrement(m) ==
    LET k == (m.sp - 1) % Byte
    IN  IF k < STACK_SIZE
        THEN { [m EXCEPT !.pcRegister = m.stack[k], !.sp = k] }
        ELSE { [m EXCEPT !.pcRegister = w, !.sp = k, !.ub = TRUE] :
                   w \in OobStackRead(m, k) }

\* (RET) pcRegister = stack[sp--]
OP_00EE(m) ==
    IF m.sp < STACK_SIZE
    THEN { [m EXCEPT !.pcRegister = m.stack[m.sp], !.sp = (m.sp - 1) % Byte] }
    ELSE { [m EXCEPT !.pcRegister = w, !.sp = (m.sp - 1) % Byte, !.ub = TRUE] :
               w \in OobStackRead(m, m.sp) }

\* (JP addr) pcRegister = opcode & FIRST_TWELVE_BITS
OP_1NNN(m) == [m EXCEPT !.pcRegister = FieldNNN(m)]

\* (CALL addr) stack[++sp] = pcRegister; pcRegister = opcode & FIRST_TWELVE_BITS
OP_2NNN(m) ==
    LET k == (m.sp + 1) % Byte
        inc == [m EXCEPT !.sp = k]
    IN  IF k < STACK_SIZE
        THEN { [inc EXCEPT !.stack[k] = m.pcRegister, !.pcRegister = FieldNNN(m)] }
        ELSE { [w EXCEPT !.pcRegister = FieldNNN(m)] :
                   w \in OobStackWrite(inc, k, m.pcRegister) }

\* OP_3XKK with the comparison inverted.
OP_3XKK_inverted(m) ==
    IF m.registers[FieldX(m)] # FieldKK(m)
    THEN [m EXCEPT !.pcRegister = (m.pcRegister + 2) % Word]
    ELSE m

\* (SE Vx, byte)
OP_3XKK(m) ==
    IF m.registers[FieldX(m)] = FieldKK(m)
    THEN [m EXCEPT !.pcRegister = (m.pcRegister + 2) % Word]
    ELSE m

\* (SNE Vx, byte)
OP_4XKK(m) ==
    IF m.registers[FieldX(m)] # FieldKK(m)
    THEN [m EXCEPT !.pcRegister = (m.pcRegister + 2) % Word]
    ELSE m

\* (SE Vx, Vy) the condition of the source is Vx == Vy on the two indices
OP_5XY0(m) ==
    IF FieldX(m) = FieldY(m)
    THEN [m EXCEPT !.pcRegister = (m.pcRegister + 2) % Word]
    ELSE m

\* (LD Vx, byte)
OP_6XKK(m) == [m EXCEPT !.registers[FieldX(m)] = FieldKK(m)]

\* OP_7XKK writing the carry of the addition to VF.
OP_7XKK_withCarry(m) ==
    LET sum == m.registers[FieldX(m)] + FieldKK(m)
        flagged == [m EXCEPT !.registers[REGISTER_VF] =
                                 IF sum > 255 THEN 1 ELSE 0]
    IN  [flagged EXCEPT !.registers[FieldX(m)] = sum % Byte]

\* (ADD Vx, byte) registers[Vx] += byte
OP_7XKK(m) ==
    [m EXCEPT !.registers[FieldX(m)] = (@ + FieldKK(m)) % Byte]

\* (LD Vx, Vy)
OP_8XY0(m) == [m EXCEPT !.registers[FieldX(m)] = m.registers[FieldY(m)]]

\* (OR Vx, Vy)
OP_8XY1(m) ==
    [m EXCEPT !.registers[FieldX(m)] = BitOr(@, m.registers[FieldY(m)])]

\* (AND Vx, Vy)
OP_8XY2(m) ==
    [m EXCEPT !.registers[FieldX(m)] = BitAnd(@, m.registers[FieldY(m)])]

\* (XOR Vx, Vy)
OP_8XY3(m) ==
    [m EXCEPT !.registers[FieldX(m)] = BitXor(@, m.registers[FieldY(m)])]

\* OP_8XY4 with the sum held in 8 bits: the carry is lost.
OP_8XY4_narrowSum(m) ==
    LET sum == (m.registers[FieldX(m)] + m.registers[FieldY(m)]) % Byte
        flagged == [m EXCEPT !.registers[REGISTER_VF] =
                                 IF sum > 255 THEN 1 ELSE 0]
    IN  [flagged EXCEPT !.registers[FieldX(m)] = BitAnd(sum, 255)]

\* (ADD Vx, Vy) the sum is taken first, then VF is written, then Vx
OP_8XY4(m) ==
    LET sum == (m.registers[FieldX(m)] + m.registers[FieldY(m)]) % Word
        flagged == [m EXCEPT !.registers[REGISTER_VF] =
                                 IF sum > 255 THEN 1 ELSE 0]
    IN  [flagged EXCEPT !.registers[FieldX(m)] = BitAnd(sum, 255)]

\* OP_8XY5 with >= for >.
OP_8XY5_notStrict(m) ==
    LET flagged == [m EXCEPT !.registers[REGISTER_VF] =
                        IF m.registers[FieldX(m)] >= m.registers[FieldY(m)]
                        THEN 1 ELSE 0]
    IN  [flagged EXCEPT !.registers[FieldX(m)] =
            (flagged.registers[FieldX(m)] - flagged.registers[FieldY(m)]) % Byte]

\* (SUB Vx, Vy) VF is written first; registers[Vx] -= registers[Vy] then
\* reads both registers again
OP_8XY5(m) ==
    LET flagged == [m EXCEPT !.registers[REGISTER_VF] =
                        IF m.registers[FieldX(m)] > m.registers[FieldY(m)]
                        THEN 1 ELSE 0]
    IN  [flagged EXCEPT !.registers[FieldX(m)] =
            (flagged.registers[FieldX(m)] - flagged.registers[FieldY(m)]) % Byte]

\* OP_8XY6 with the bit taken after the shift.
OP_8XY6_shiftFirst(m) ==
    LET shifted == [m EXCEPT !.registers[FieldX(m)] = @ \div 2]
    IN  [shifted EXCEPT !.registers[REGISTER_VF] =
            BitAnd(shifted.registers[FieldX(m)], 1)]

\* (SHR Vx) LSB is taken, VF written, then registers[Vx] >>= 1
OP_8XY6(m) ==
    LET LSB == BitAnd(m.registers[FieldX(m)], 1)
        flagged == [m EXCEPT !.registers[REGISTER_VF] = LSB]
    IN  [flagged EXCEPT !.registers[FieldX(m)] =
            flagged.registers[FieldX(m)] \div 2]

\* (SUBN Vx, Vy) VF is written first, then Vx = Vy - Vx from the registers
OP_8XY7(m) ==
    LET flagged == [m EXCEPT !.registers[REGISTER_VF] =
                        IF m.registers[FieldY(m)] > m.registers[FieldX(m)]
                        THEN 1 ELSE 0]
    IN  [flagged EXCEPT !.registers[FieldX(m)] =
            (flagged.registers[FieldY(m)] - flagged.registers[FieldX(m)]) % Byte]

\* (SHL Vx) MSB is taken, VF written, then registers[Vx] <<= 1
OP_8XYE(m) ==
    LET MSB == BitAnd(m.registers[FieldX(m)], 128) \div 128
        flagged == [m EXCEPT !.registers[REGISTER_VF] = MSB]
    IN  [flagged EXCEPT !.registers[FieldX(m)] =
            (flagged.registers[FieldX(m)] * 2) % Byte]

\* (SNE Vx, Vy)
OP_9XY0(m) ==
    IF m.registers[FieldX(m)] # m.registers[FieldY(m)]
    THEN [m EXCEPT !.pcRegister = (m.pcRegister + 2) % Word]
    ELSE m

\* (LD I, addr)
OP_ANNN(m) == [m EXCEPT !.indexRegister = BitAnd(m.opcode, 4095)]

\* (JP V0, addr)
OP_BNNN(m) ==
    [m EXCEPT !.pcRegister =
        (m.registers[REGISTER_V0] + BitAnd(m.opcode, 4095)) % Word]

\* The bytes randByte(randGen) is drawn from in the model.
RandBytes == {0, 1, 170, 255}

\* OP_CXKK_with with the random byte shifted right by one before the AND.
OP_CXKK_shifted(m, r) ==
    [m EXCEPT !.registers[FieldX(m)] = BitAnd(FieldKK(m), r \div 2)]

\* (RND Vx, byte) registers[Vx] = byte & r, r the value of randByte(randGen)
OP_CXKK_with(m, r) ==
    [m EXCEPT !.registers[FieldX(m)] = BitAnd(FieldKK(m), r)]

\* (RND Vx, byte) registers[Vx] = byte & randByte(randGen)
OP_CXKK(m) == { OP_CXKK_with(m, r) : r \in RandBytes }

\* Handlers whose body is empty in the source.
OP_DXYN(m) == m
OP_EX9E(m) == m
OP_EXA1(m) == m
OP_FX0A(m) == m
OP_FX29(m) == m
OP_FX33(m) == m
OP_FX55(m) == m
OP_FX65(m) == m

\* (LD Vx, DT)
OP_FX07(m) == [m EXCEPT !.registers[FieldX(m)] = m.timer]

\* (LD DT, Vx)
OP_FX15(m) == [m EXCEPT !.timer = m.registers[FieldX(m)]]

\* (LD ST, Vx)
OP_FX18(m) == [m EXCEPT !.soundTimer = m.registers[FieldX(m)]]

\* (ADD I, Vx) indexRegister += registers[Vx]
OP_FX1E(m) ==
    [m EXCEPT !.indexRegister = (@ + m.registers[FieldX(m)]) % Word]

----------------------------------------------------------------------------
(* The instruction cycle: fetch, decode, dispatch.                         *)

\* The handler the opcode selects: the high nibble, and for families 0, 8,
\* E and F the low nibble or low byte as well; "none" is a decode gap.
Decode(op) ==
    LET hi == op \div 4096
        lowNibble == op % 16
        lowByte == op % 256
    IN  CASE hi = 0 /\ op = 224 -> "OP_00E0"
          [] hi = 0 /\ op = 238 -> "OP_00EE"
          [] hi = 1 -> "OP_1NNN"
          [] hi = 2 -> "OP_2NNN"
          [] hi = 3 -> "OP_3XKK"
          [] hi = 4 -> "OP_4XKK"
          [] hi = 5 /\ lowNibble = 0 -> "OP_5XY0"
          [] hi = 6 -> "OP_6XKK"
          [] hi = 7 -> "OP_7XKK"
          [] hi = 8 /\ lowNibble = 0 -> "OP_8XY0"
          [] hi = 8 /\ lowNibble = 1 -> "OP_8XY1"
          [] hi = 8 /\ lowNibble = 2 -> "OP_8XY2"
          [] hi = 8 /\ lowNibble = 3 -> "OP_8XY3"
          [] hi = 8 /\ lowNibble = 4 -> "OP_8XY4"
          [] hi = 8 /\ lowNibble = 5 -> "OP_8XY5"
          [] hi = 8 /\ lowNibble = 6 -> "OP_8XY6"
          [] hi = 8 /\ lowNibble = 7 -> "OP_8XY7"
          [] hi = 8 /\ lowNibble = 14 -> "OP_8XYE"
          [] hi = 9 /\ lowNibble = 0 -> "OP_9XY0"
          [] hi = 10 -> "OP_ANNN"
          [] hi = 11 -> "OP_BNNN"
          [] hi = 12 -> "OP_CXKK"
          [] hi = 13 -> "OP_DXYN"
          [] hi = 14 /\ lowByte = 158 -> "OP_EX9E"
          [] hi = 14 /\ lowByte = 161 -> "OP_EXA1"
          [] hi = 15 /\ lowByte = 7 -> "OP_FX07"
          [] hi = 15 /\ lowByte = 10 -> "OP_FX0A"
          [] hi = 15 /\ lowByte = 21 -> "OP_FX15"
          [] hi = 15 /\ lowByte = 24 -> "OP_FX18"
          [] hi = 15 /\ lowByte = 30 -> "OP_FX1E"
          [] hi = 15 /\ lowByte = 41 -> "OP_FX29"
          [] hi = 15 /\ lowByte = 51 -> "OP_FX33"
          [] hi = 15 /\ lowByte = 85 -> "OP_FX55"
          [] hi = 15 /\ lowByte = 101 -> "OP_FX65"
          [] OTHER -> "none"

\* The machines handler `name` can leave behind when entered with m.
Exec(name, m) ==
    CASE name = "OP_00E0" -> {OP_00E0(m)}
      [] name = "OP_00EE" -> OP_00EE(m)
      [] name = "OP_1NNN" -> {OP_1NNN(m)}
      [] name = "OP_2NNN" -> OP_2NNN(m)
      [] name = "OP_3XKK" -> {OP_3XKK(m)}
      [] name = "OP_4XKK" -> {OP_4XKK(m)}
      [] name = "OP_5XY0" -> {OP_5XY0(m)}
      [] name = "OP_6XKK" -> {OP_6XKK(m)}
      [] name = "OP_7XKK" -> {OP_7XKK(m)}
      [] name = "OP_8XY0" -> {OP_8XY0(m)}
      [] name = "OP_8XY1" -> {OP_8XY1(m)}
      [] name = "OP_8XY2" -> {OP_8XY2(m)}
      [] name = "OP_8XY3" -> {OP_8XY3(m)}
      [] name = "OP_8XY4" -> {OP_8XY4(m)}
      [] name = "OP_8XY5" -> {OP_8XY5(m)}
      [] name = "OP_8XY6" -> {OP_8XY6(m)}
      [] name = "OP_8XY7" -> {OP_8XY7(m)}
      [] name = "OP_8XYE" -> {OP_8XYE(m)}
      [] name = "OP_9XY0" -> {OP_9XY0(m)}
      [] name = "OP_ANNN" -> {OP_ANNN(m)}
      [] name = "OP_BNNN" -> {OP_BNNN(m)}
      [] name = "OP_CXKK" -> OP_CXKK(m)
      [] name = "OP_DXYN" -> {OP_DXYN(m)}
      [] name = "OP_EX9E" -> {OP_EX9E(m)}
      [] name = "OP_EXA1" -> {OP_EXA1(m)}
      [] name = "OP_FX07" -> {OP_FX07(m)}
      [] name = "OP_FX0A" -> {OP_FX0A(m)}
      [] name = "OP_FX15" -> {OP_FX15(m)}
      [] name = "OP_FX18" -> {OP_FX18(m)}
      [] name = "OP_FX1E" -> {OP_FX1E(m)}
      [] name = "OP_FX29" -> {OP_FX29(m)}
      [] name = "OP_FX33" -> {OP_FX33(m)}
      [] name = "OP_FX55" -> {OP_FX55(m)}
      [] name = "OP_FX65" -> {OP_FX65(m)}
      [] OTHER -> {m}

\* The fields of the object as one record; ub is set by an operation that
\* indexes an array out of its bounds.
Cur ==
    [memory |-> memory, registers |-> registers, pcRegister |-> pcRegister,
     indexRegister |-> indexRegister, stack |-> stack, sp |-> sp,
     timer |-> timer, soundTimer |-> soundTimer, keypad |-> keypad,
     display |-> display, opcode |-> opcode, ub |-> FALSE]

Install(m) ==
    /\ memory' = m.memory
    /\ registers' = m.registers
    /\ pcRegister' = m.pcRegister
    /\ indexRegister' = m.indexRegister
    /\ stack' = m.stack
    /\ sp' = m.sp
    /\ timer' = m.timer
    /\ soundTimer' = m.soundTimer
    /\ keypad' = m.keypad
    /\ display' = m.display
    /\ opcode' = m.opcode
    /\ oob' = IF m.ub THEN oob + 1 ELSE oob

\* The opcodes the two bytes at pcRegister can form: the big-endian word
\* where both bytes have been written, and otherwise (memory[] is not
\* initialised outside the font) any opcode of `ops` that agrees with the
\* bytes that have.  Addresses are taken modulo the memory size.
Fetched(m, ops) ==
    LET a0 == m.pcRegister % MEMORY_SIZE
        a1 == (m.pcRegister + 1) % MEMORY_SIZE
    IN  IF a0 \in DOMAIN m.memory /\ a1 \in DOMAIN m.memory
        THEN { m.memory[a0] * Byte + m.memory[a1] }
        ELSE { op \in ops :
                 /\ a0 \in DOMAIN m.memory => m.memory[a0] = op \div Byte
                 /\ a1 \in DOMAIN m.memory => m.memory[a1] = op % Byte }

\* The machine as the handler finds it: the opcode stored, pc past it.
Fetch(m, op) ==
    [m EXCEPT !.opcode = op, !.pcRegister = (m.pcRegister + 2) % Word]

\* What the history keeps of one operation.
NoImage == << >>
Entry(name, op, slot, image) ==
    [name |-> name, opcode |-> op, at |-> pcRegister, sp |-> sp,
     outstanding |-> outstanding, slot |-> slot,
     slotPushed |-> slot \in pushed, image |-> image]

\* The stack slot a handler indexes, -1 if none.
SlotOf(name) ==
    IF name = "OP_2NNN" THEN (sp + 1) % Byte
    ELSE IF name = "OP_00EE" THEN sp
    ELSE -1

\* One instruction cycle, the opcode drawn from `ops` where memory leaves
\* it open.
Step(ops) ==
    \E op \in Fetched(Cur, ops) :
        LET name == Decode(op) IN
        \E m \in Exec(name, Fetch(Cur, op)) :
            /\ Install(m)
            /\ last' = Entry(name, op, SlotOf(name), NoImage)
            /\ prev' = last
            /\ outstanding' =
                   IF name = "OP_2NNN" THEN outstanding + 1
                   ELSE IF name = "OP_00EE" /\ outstanding > 0
                        THEN outstanding - 1
                   ELSE outstanding
            /\ unmatched' =
                   (unmatched \/ (name = "OP_00EE" /\ outstanding = 0))
            /\ pushed' =
                   IF name = "OP_2NNN" /\ SlotOf(name) < STACK_SIZE
                   THEN pushed \cup {SlotOf(name)}
                   ELSE pushed
            /\ saved' =
                   IF name = "OP_2NNN"
                   THEN Append(saved, Fetch(Cur, op).pcRegister)
                   ELSE IF name = "OP_00EE" /\ saved # << >>
                        THEN SubSeq(saved, 1, Len(saved) - 1)
                   ELSE saved
            /\ deepest' =
                   IF name = "OP_2NNN" /\ outstanding + 1 > deepest
                   THEN outstanding + 1
                   ELSE deepest
            /\ drawn' = -1
            /\ steps' = steps + 1

----------------------------------------------------------------------------
(* LoadROM.                                                                *)

\* The file as read into `char* buffer`: a byte above 127 is a negative char.
ToChar(b) == IF b > 127 THEN b - Byte ELSE b
\* A char stored into a uint8_t.
ToUint8(c) == c % Byte

\* The stores memory[START_ADDRESS + i] = buffer[i] for i in from..size-1
\* that fall past the end of memory[], in the order of the loop.
RECURSIVE OverflowStores(_, _, _)
OverflowStores(m, buffer, i) ==
    IF i >= Len(buffer) THEN m
    ELSE OverflowStores(PokeByte(m, START_ADDRESS + i, ToUint8(buffer[i + 1])),
                        buffer, i + 1)

\* LoadROM with the loop running for i < size - 1.
LoadROM_shortLoop(m, bytes) ==
    LET size == Len(bytes)
        buffer == [i \in 1..size |-> ToChar(bytes[i])]
        inside == IF size = 0 THEN 0 ELSE size - 1
    IN  { [m EXCEPT !.memory =
            [a \in DOMAIN m.memory \cup
                   (START_ADDRESS..(START_ADDRESS + inside - 1)) |->
                IF a >= START_ADDRESS /\ a < START_ADDRESS + inside
                THEN ToUint8(buffer[a - START_ADDRESS + 1])
                ELSE m.memory[a]]] }

\* LoadROM copying to memory[FONT_ADDRESS + i].
LoadROM_atFontAddress(m, bytes) ==
    LET size == Len(bytes)
        buffer == [i \in 1..size |-> ToChar(bytes[i])]
    IN  { [m EXCEPT !.memory =
            [a \in DOMAIN m.memory \cup
                   (FONT_ADDRESS..(FONT_ADDRESS + size - 1)) |->
                IF a >= FONT_ADDRESS /\ a < FONT_ADDRESS + size
                THEN ToUint8(buffer[a - FONT_ADDRESS + 1])
                ELSE m.memory[a]]] }

\* LoadROM on a file that opens and holds `bytes`.
LoadROM(m, bytes) ==
    LET size == Len(bytes)
        buffer == [i \in 1..size |-> ToChar(bytes[i])]
        room == MEMORY_SIZE - START_ADDRESS
        inside == IF size < room THEN size ELSE room
        copied ==
            [m EXCEPT !.memory =
                [a \in DOMAIN m.memory \cup
                       (START_ADDRESS..(START_ADDRESS + inside - 1)) |->
                    IF a >= START_ADDRESS /\ a < START_ADDRESS + inside
                    THEN ToUint8(buffer[a - START_ADDRESS + 1])
                    ELSE m.memory[a]]]
    IN  IF size <= room
        THEN { copied }
        ELSE { [OverflowStores(copied, buffer, room) EXCEPT !.ub = TRUE],
               [copied EXCEPT !.ub = TRUE] }

\* The files of the model: `bytes` is the content of a file that opens.
ScenarioRom == <<96, 5, 112, 3>>
Pattern(len, seed) == [i \in 1..len |-> (seed + 37 * i) % Byte]
RomSizes == {0, 3, 3584, 3585, 3606}
Files == { Pattern(n, 129) : n \in RomSizes }

\* LoadROM(filename) with a file of `files` that opens.
Load(files) ==
    \E bytes \in files :
        \E m \in LoadROM(Cur, bytes) :
            /\ Install(m)
            /\ last' = Entry("LoadROM", opcode, -1, bytes)
            /\ prev' = last
            /\ steps' = steps + 1
            /\ UNCHANGED <<outstanding, unmatched, pushed, saved, deepest,
                           drawn>>

\* LoadROM(filename) with a file that does not open: nothing is done.
LoadMissing ==
    /\ last' = Entry("LoadROM_nofile", opcode, -1, NoImage)
    /\ prev' = last
    /\ steps' = steps + 1
    /\ UNCHANGED <<machine, oob, outstanding, unmatched, pushed, saved,
                   deepest, drawn>>

\* The input collaborator stores v in the public member keypad[k].
SetKey(k, v) ==
    /\ keypad[k] # v
    /\ keypad' = [keypad EXCEPT ![k] = v]
    /\ last' = Entry("keypad", opcode, -1, NoImage)
    /\ prev' = last
    /\ steps' = steps + 1
    /\ UNCHANGED <<memory, registers, pcRegister, indexRegister, stack, sp,
                   timer, soundTimer, display, opcode, oob, outstanding,
                   unmatched, pushed, saved, deepest, drawn>>

----------------------------------------------------------------------------
(* Specifications.                                                         *)

InitEntry ==
    [name |-> "init", opcode |-> 0, at |-> 0, sp |-> 0, outstanding |-> 0,
     slot |-> -1, slotPushed |-> FALSE, image |-> NoImage]

InitHistory ==
    /\ oob = 0
    /\ last = InitEntry
    /\ prev = InitEntry
    /\ outstanding = 0
    /\ unmatched = FALSE
    /\ pushed = {}
    /\ saved = << >>
    /\ deepest = 0
    /\ drawn = -1
    /\ steps = 0

\* memory[] as the constructor leaves it: the font, nothing else written.
FontMemory ==
    [a \in FONT_ADDRESS..(FONT_ADDRESS + FONTSET_SIZE - 1) |->
        fontset[a - FONT_ADDRESS + 1]]

\* The object after Chip8::Chip8().
Init ==
    /\ memory = FontMemory
    /\ registers = [i \in 0..(NUM_REGISTERS - 1) |-> 0]
    /\ pcRegister = START_ADDRESS
    /\ indexRegister = 0
    /\ stack = [i \in 0..(STACK_SIZE - 1) |-> 0]
    /\ sp = 0
    /\ timer = 0
    /\ soundTimer = 0
    /\ keypad = [i \in 0..(NUM_KEYS - 1) |-> 0]
    /\ display = ClearedDisplay
    /\ opcode = 0
    /\ InitHistory

(* Spec: a machine that is constructed, may be given the two-instruction   *)
(* program, and runs; where no program byte was loaded the opcode is any   *)
(* of FreeOpcodes.                                                         *)

FreeOpcodes ==
    { 24581,    \* 6005  LD V0, 5
      24835,    \* 6103  LD V1, 3
      28675,    \* 7003  ADD V0, 3
      32788,    \* 8014  ADD V0, V1
      41728,    \* A300  LD I, 300
      49407,    \* C0FF  RND V0, FF
      61447,    \* F007  LD V0, DT
      61461,    \* F015  LD DT, V0
      61464,    \* F018  LD ST, V0
      12293,    \* 3005  SE V0, 5
      16389,    \* 4005  SNE V0, 5
      36880,    \* 9010  SNE V0, V1
      20496,    \* 5010  SE V0, V1
      4864,     \* 1300  JP 300
      9216,     \* 2400  CALL 400
      238,      \* 00EE  RET
      45824,    \* B300  JP V0, 300
      224,      \* 00E0  CLS
      0 }       \* 0000  no instruction

Run == steps < MaxSteps /\ Step(FreeOpcodes)
LoadProgram == steps < MaxSteps /\ Load({ScenarioRom})

Next == Run \/ LoadProgram

Spec == Init /\ [][Next]_vars

(* SpecLoad: a machine that is constructed and is given files at any time  *)
(* between a few instructions that set registers, index, stack and timers. *)

LoadOpcodes ==
    { 24759,    \* 60B7  LD V0, B7
      41728,    \* A300  LD I, 300
      9216,     \* 2400  CALL 400
      61461 }   \* F015  LD DT, V0

RunLoad == steps < MaxLoadSteps /\ Step(LoadOpcodes)
LoadFile == steps < MaxLoadSteps /\ Load(Files)
LoadNoFile == steps < MaxLoadSteps /\ LoadMissing

NextLoad == RunLoad \/ LoadFile \/ LoadNoFile

SpecLoad == Init /\ [][NextLoad]_vars

(* SpecInstr: one instruction executed by a machine whose registers and    *)
(* delay timer hold values earlier instructions can have left there.       *)

Idx == {0, 1, 14, 15}
RegVals == {0, 1, 128, 255}
TimerVals == {0, 30}
Immediates == {0, 1, 128, 255}
Addresses == {0, 768, 4095}

InitInstr ==
    /\ memory = FontMemory
    /\ registers \in { [i \in 0..(NUM_REGISTERS - 1) |->
                           IF i \in Idx THEN f[i] ELSE 0] :
                       f \in [Idx -> RegVals] }
    /\ pcRegister = START_ADDRESS
    /\ indexRegister = 0
    /\ stack = [i \in 0..(STACK_SIZE - 1) |-> 0]
    /\ sp = 0
    /\ timer \in TimerVals
    /\ soundTimer = 0
    /\ keypad = [i \in 0..(NUM_KEYS - 1) |-> 0]
    /\ display = ClearedDisplay
    /\ opcode = 0
    /\ InitHistory

InstrOpcodes ==
    { 32768 + x * 256 + y * 16 + n :
          x \in Idx, y \in Idx, n \in (0..7) \cup {14} }
    \cup { h * 4096 + x * 256 + y * 16 : h \in {5, 9}, x \in Idx, y \in Idx }
    \cup { h * 4096 + x * 256 + kk :
               h \in {3, 4, 6, 7, 12}, x \in Idx, kk \in Immediates }
    \cup { 61440 + x * 256 + lb :
               x \in Idx, lb \in {7, 10, 21, 24, 30, 41, 51, 85, 101} }
    \cup { 57344 + x * 256 + lb : x \in Idx, lb \in {158, 161} }
    \cup { h * 4096 + nnn : h \in {1, 2, 10, 11, 13}, nnn \in Addresses }
    \cup { 224, 238, 0 }

RunOne == last.name = "init" /\ Step(InstrOpcodes)

NextInstr == RunOne

SpecInstr == InitInstr /\ [][NextInstr]_vars

(* SpecStack: calls and returns on a constructed machine.                  *)

StackOpcodes ==
    { 8960,     \* 2300  CALL 300
      238 }     \* 00EE  RET

RunStack == steps < MaxStackSteps /\ oob < MaxOob /\ Step(StackOpcodes)

NextStack == RunStack

SpecStack == Init /\ [][NextStack]_vars

(* SpecFont: a machine that is constructed, is given files of at most     *)
(* 3584 bytes at any time, and executes instructions, among them those    *)
(* that address memory through the index register set to the font.        *)

FittingSizes == {0, 3, 3584}
FittingFiles == { Pattern(n, 129) : n \in FittingSizes }

FontOpcodes ==
    { 41040,    \* A050  LD I, 050
      65365,    \* FF55  LD [I], VF
      61491,    \* F033  LD B, V0
      53253,    \* D005  DRW V0, V0, 5
      24759,    \* 60B7  LD V0, B7
      9216,     \* 2400  CALL 400
      238 }     \* 00EE  RET

RunFont == steps < MaxLoadSteps /\ Step(FontOpcodes)
LoadFitting == steps < MaxLoadSteps /\ Load(FittingFiles)

NextFont == RunFont \/ LoadFitting

SpecFont == Init /\ [][NextFont]_vars

(* SpecRand: one Cxkk executed by a machine whose registers are all 0 or   *)
(* all 255, for every byte the random source can return.                  *)

AllBytes == 0..255
Masks == {0, 1, 15, 128, 165, 255}
RandOpcodes == { 49152 + x * 256 + kk : x \in 0..15, kk \in Masks }

InitRand ==
    /\ memory = FontMemory
    /\ registers \in { [i \in 0..(NUM_REGISTERS - 1) |-> v] : v \in {0, 255} }
    /\ pcRegister = START_ADDRESS
    /\ indexRegister = 0
    /\ stack = [i \in 0..(STACK_SIZE - 1) |-> 0]
    /\ sp = 0
    /\ timer = 0
    /\ soundTimer = 0
    /\ keypad = [i \in 0..(NUM_KEYS - 1) |-> 0]
    /\ display = ClearedDisplay
    /\ opcode = 0
    /\ InitHistory

\* One instruction cycle on a Cxkk opcode, randByte(randGen) returning r.
StepRandom(ops) ==
    \E op \in Fetched(Cur, ops) : \E r \in AllBytes :
        /\ Decode(op) = "OP_CXKK"
        /\ Install(OP_CXKK_with(Fetch(Cur, op), r))
        /\ last' = Entry("OP_CXKK", op, -1, NoImage)
        /\ prev' = last
        /\ drawn' = r
        /\ steps' = steps + 1
        /\ UNCHANGED <<outstanding, unmatched, pushed, saved, deepest>>

RunRandom == last.name = "init" /\ StepRandom(RandOpcodes)

NextRand == RunRandom

SpecRand == InitRand /\ [][NextRand]_vars

(* SpecKey: a constructed machine that executes key instructions while    *)
(* the input collaborator presses and releases keys.                      *)

Keys == {0, 7, 15}

KeyOpcodes ==
    { 61450,    \* F00A  LD V0, K
      61706,    \* F10A  LD V1, K
      24837,    \* 6105  LD V1, 5
      57502,    \* E09E  SKP V0
      57505 }   \* E0A1  SKNP V0

RunKey == steps < MaxSteps /\ Step(KeyOpcodes)
PressKey == steps < MaxSteps /\ \E k \in Keys : SetKey(k, 1)
ReleaseKey == steps < MaxSteps /\ \E k \in Keys : SetKey(k, 0)

NextKey == RunKey \/ PressKey \/ ReleaseKey

SpecKey == Init /\ [][NextKey]_vars

(* SpecDraw: a constructed machine that points the index register at a    *)
(* font glyph, sets coordinates, draws and clears.                        *)

DrawOpcodes ==
    { 41040,    \* A050  LD I, 050  (glyph 0)
      41045,    \* A055  LD I, 055  (glyph 1)
      24579,    \* 6003  LD V0, 03
      24894,    \* 613E  LD V1, 3E
      53253,    \* D005  DRW V0, V0, 5
      53269,    \* D015  DRW V0, V1, 5
      53520,    \* D110  DRW V1, V1, 0
      224 }     \* 00E0  CLS

RunDraw == steps < MaxSteps /\ Step(DrawOpcodes)

NextDraw == RunDraw

SpecDraw == Init /\ [][NextDraw]_vars

(* SpecStore: a constructed machine that sets registers and the index     *)
(* register and executes the block register save and load.                *)

StoreOpcodes ==
    { 41040,    \* A050  LD I, 050
      41048,    \* A058  LD I, 058
      24759,    \* 60B7  LD V0, B7
      28417,    \* 6F01  LD VF, 01
      65365,    \* FF55  LD [I], VF
      65381,    \* FF65  LD VF, [I]
      62037 }   \* F255  LD [I], V2

RunStore == steps < MaxSteps /\ Step(StoreOpcodes)

NextStore == RunStore

SpecStore == Init /\ [][NextStore]_vars

(* SpecTimer: every operation class Chip8 has on its timers: a            *)
(* constructed machine that sets registers and executes the timer         *)
(* instructions.  Chip8.hpp declares no operation that counts a timer     *)
(* down.                                                                  *)

TimerOpcodes ==
    { 24606,    \* 601E  LD V0, 1E
      24832,    \* 6100  LD V1, 00
      61461,    \* F015  LD DT, V0
      61464,    \* F018  LD ST, V0
      61717,    \* F115  LD DT, V1
      61959 }   \* F207  LD V2, DT

RunTimer == steps < MaxSteps /\ Step(TimerOpcodes)

NextTimer == RunTimer

SpecTimer == Init /\ [][NextTimer]_vars

----------------------------------------------------------------------------
(* Properties.  In an action formula the unprimed variables are the        *)
(* machine before the operation, the primed ones the machine after it,     *)
(* and last' names the operation.                                          *)

\* The operand fields of an opcode.
XOf(op) == (op \div 256) % 16
YOf(op) == (op \div 16) % 16
KKOf(op) == op % 256

\* C1: 8xy4 with x in 0..14 and any y leaves VF = 1 if Vx + Vy of the
\* register values before the instruction exceeds 255 and VF = 0 otherwise,
\* and leaves register x equal to that sum modulo 256.
C1_AddCarryAndSum ==
    [][ (last'.name = "OP_8XY4" /\ XOf(opcode') <= 14) =>
          LET x == XOf(opcode')
              y == YOf(opcode')
              sum == registers[x] + registers[y]
          IN  /\ registers'[REGISTER_VF] = (IF sum > 255 THEN 1 ELSE 0)
              /\ registers'[x] = sum % 256 ]_vars

\* C1 witness: 80F4 has run on V0 = 255, VF = 128 (y is the flag register):
\* the sum 383 left V0 = 127 and VF = 1.
C1_Witness ==
    /\ last.name = "OP_8XY4"
    /\ opcode = 33012
    /\ registers[0] = 127
    /\ registers[REGISTER_VF] = 1

\* C2: with x in 0..14 and any y, 8xy5 leaves VF = 1 iff Vx > Vy and 8xy7
\* leaves VF = 1 iff Vy > Vx, on the register values before the
\* instruction; equal values give VF = 0.
C2_SubFlagsStrict ==
    [][ /\ (last'.name = "OP_8XY5" /\ XOf(opcode') <= 14) =>
              registers'[REGISTER_VF] =
                  (IF registers[XOf(opcode')] > registers[YOf(opcode')]
                   THEN 1 ELSE 0)
        /\ (last'.name = "OP_8XY7" /\ XOf(opcode') <= 14) =>
              registers'[REGISTER_VF] =
                  (IF registers[YOf(opcode')] > registers[XOf(opcode')]
                   THEN 1 ELSE 0) ]_vars

\* C2 witness: 8015 has run on V0 = V1 = 128 (V0 is now 0, V1 still 128)
\* and left VF = 0.
C2_Witness ==
    /\ last.name = "OP_8XY5"
    /\ opcode = 32789
    /\ registers[0] = 0
    /\ registers[1] = 128
    /\ registers[REGISTER_VF] = 0

\* C3: with x in 0..14, 8xy6 leaves VF = bit 0 of Vx and Vx = Vx >> 1, and
\* 8xyE leaves VF = bit 7 of Vx and Vx = (Vx << 1) mod 256, Vx being the
\* value before the instruction; neither result mentions y or Vy.
C3_ShiftFlags ==
    [][ /\ (last'.name = "OP_8XY6" /\ XOf(opcode') <= 14) =>
              /\ registers'[REGISTER_VF] = registers[XOf(opcode')] % 2
              /\ registers'[XOf(opcode')] = registers[XOf(opcode')] \div 2
        /\ (last'.name = "OP_8XYE" /\ XOf(opcode') <= 14) =>
              /\ registers'[REGISTER_VF] = registers[XOf(opcode')] \div 128
              /\ registers'[XOf(opcode')] =
                     (registers[XOf(opcode')] * 2) % 256 ]_vars

\* C3 witness: 80E6 (y = 14, V14 = 0) has run on V0 = 255 and left V0 = 127
\* and VF = 1.
C3_Witness ==
    /\ last.name = "OP_8XY6"
    /\ opcode = 32998
    /\ registers[0] = 127
    /\ registers[14] = 0
    /\ registers[REGISTER_VF] = 1

\* C4: 5xy0 skips the next instruction (pc is 4 past the instruction
\* instead of 2) if and only if the values of registers x and y are equal.
C4_SkipOnEqualValues ==
    [][ last'.name = "OP_5XY0" =>
          pcRegister' =
              (IF registers[XOf(opcode')] = registers[YOf(opcode')]
               THEN pcRegister + 4 ELSE pcRegister + 2) ]_vars

\* C5: a 2nnn executed at address p with fewer than 16 calls outstanding,
\* followed by 00EE as the next instruction, leaves pc = p + 2 and the
\* stack pointer as it was before the call.
C5_CallThenReturn ==
    (/\ last.name = "OP_00EE"
     /\ prev.name = "OP_2NNN"
     /\ prev.outstanding < 16
     /\ ~unmatched)
        => (pcRegister = prev.at + 2 /\ sp = prev.sp)

\* C6: while at most 16 calls are outstanding on a machine that started
\* fresh and executed no unmatched return, every stack access of a call or
\* a return uses a slot in 0..15.
C6_StackSlotsInArray ==
    (/\ last.name \in {"OP_2NNN", "OP_00EE"}
     /\ ~unmatched
     /\ outstanding <= 16)
        => last.slot \in 0..(STACK_SIZE - 1)

\* C7: after 00EE with no call outstanding the stack pointer has not
\* wrapped to 255 and pc does not hold the content of a slot no call wrote.
C7_ReturnOnEmptyStack ==
    (last.name = "OP_00EE" /\ last.outstanding = 0)
        => /\ sp # 255
           /\ ~(/\ last.slot \in 0..(STACK_SIZE - 1)
                /\ ~last.slotPushed
                /\ pcRegister = stack[last.slot])

\* The handlers that neither jump, call, return nor skip.
PlainHandlers ==
    {"OP_00E0", "OP_6XKK", "OP_7XKK", "OP_8XY0", "OP_8XY1", "OP_8XY2",
     "OP_8XY3", "OP_8XY4", "OP_8XY5", "OP_8XY6", "OP_8XY7", "OP_8XYE",
     "OP_ANNN", "OP_CXKK", "OP_FX07", "OP_FX15", "OP_FX18", "OP_FX1E"}

\* The two-instruction program is in memory and its two instructions were
\* the last two executed, 6005 at 0x200 and 7003 at 0x202.
ScenarioRan ==
    /\ \A i \in 1..4 : (START_ADDRESS + i - 1) \in DOMAIN memory
                       /\ memory[START_ADDRESS + i - 1] = ScenarioRom[i]
    /\ prev.name = "OP_6XKK" /\ prev.opcode = 24581 /\ prev.at = 512
    /\ last.name = "OP_7XKK" /\ last.opcode = 28675 /\ last.at = 514

C9_OversizedLoadRejected ==
    [][ (last'.name = "LoadROM"
            /\ Len(last'.image) > MEMORY_SIZE - START_ADDRESS) =>
          (UNCHANGED machine /\ oob' = oob) ]_vars

\* C10: LoadROM of a file of L <= 3584 bytes leaves memory[0x200 + i] equal
\* to byte i of the file for i in 0..L-1, every other memory byte as it was
\* (written or not), and registers, index register, pc, stack, stack
\* pointer and timers unchanged.
C10_LoadFrame ==
    [][ (last'.name = "LoadROM"
            /\ Len(last'.image) <= MEMORY_SIZE - START_ADDRESS) =>
          LET image == last'.image
              L == Len(image)
          IN  /\ \A i \in 0..(L - 1) :
                    /\ (START_ADDRESS + i) \in DOMAIN memory'
                    /\ memory'[START_ADDRESS + i] = image[i + 1]
              /\ \A a \in 0..(MEMORY_SIZE - 1) :
                    (a < START_ADDRESS \/ a >= START_ADDRESS + L) =>
                        /\ (a \in DOMAIN memory') = (a \in DOMAIN memory)
                        /\ a \in DOMAIN memory => memory'[a] = memory[a]
              /\ DOMAIN memory' \subseteq 0..(MEMORY_SIZE - 1)
              /\ UNCHANGED <<registers, indexRegister, pcRegister, stack,
                             sp, timer, soundTimer>> ]_vars

\* C10 witness: a file of exactly 3584 bytes was loaded after 60B7 and a
\* call: its last byte is at 0xFFF, V0 and the stack pointer are kept.
C10_Witness ==
    /\ last.name = "LoadROM"
    /\ Len(last.image) = 3584
    /\ memory[4095] = last.image[3584]
    /\ memory[4095] > 127
    /\ registers[0] = 183
    /\ sp = 1
    /\ oob = 0

\* C11: in every state reached from the constructed machine by instructions
\* and loads of at most 3584 bytes, the 80 bytes at 0x050..0x09F are the
\* font table, glyph d in the 5 bytes from 0x050 + 5 * d (glyph 0 is
\* F0 90 90 90 F0, glyph F is F0 80 F0 80 80).
C11_FontRegionKept ==
    /\ \A i \in 0..79 :
          /\ (80 + i) \in DOMAIN memory
          /\ memory[80 + i] = fontset[i + 1]
    /\ \A d \in 0..15 : \A j \in 0..4 :
          memory[80 + 5 * d + j] = fontset[5 * d + j + 1]
    /\ <<memory[80], memory[81], memory[82], memory[83], memory[84]>>
           = <<240, 144, 144, 144, 240>>
    /\ <<memory[155], memory[156], memory[157], memory[158], memory[159]>>
           = <<240, 128, 240, 128, 128>>

\* C11 witness: with the index register on the font, FF55 ran and then a
\* file of 3584 bytes was loaded; the font is in place.
C11_Witness ==
    /\ last.name = "LoadROM"
    /\ Len(last.image) = 3584
    /\ prev.name = "OP_FX55"
    /\ indexRegister = 80
    /\ memory[4095] = last.image[3584]
    /\ memory[80] = 240
    /\ memory[159] = 128

\* C12: 7xkk with x in 0..14 leaves register x equal to (Vx + kk) mod 256
\* of the value before the instruction, and VF and every other register as
\* they were, also when the sum exceeds 255.
C12_AddImmediateFrame ==
    [][ (last'.name = "OP_7XKK" /\ XOf(opcode') <= 14) =>
          LET x == XOf(opcode')
          IN  /\ registers'[x] = (registers[x] + KKOf(opcode')) % 256
              /\ \A r \in 0..15 : r # x => registers'[r] = registers[r] ]_vars

\* C12 witness: 70FF has run on V0 = 128 with VF = 128: the sum 383 left
\* V0 = 127 and VF is still 128.
C12_Witness ==
    /\ last.name = "OP_7XKK"
    /\ opcode = 28927
    /\ registers[0] = 127
    /\ registers[REGISTER_VF] = 128

\* C13: for every byte r the random source returns, Cxkk leaves register x
\* equal to kk AND r, so with no bit set outside kk; with kk = 0 register x
\* is 0.
C13_RandomMasked ==
    [][ (last'.name = "OP_CXKK" /\ drawn' \in 0..255) =>
          LET x == XOf(opcode')
              kk == KKOf(opcode')
          IN  /\ registers'[x] = BitAnd(kk, drawn')
              /\ BitAnd(registers'[x], 255 - kk) = 0
              /\ kk = 0 => registers'[x] = 0 ]_vars

\* C13 witness: CF00 has run on registers all 255 with the random byte 255:
\* VF is 0, V0 still 255.
C13_Witness ==
    /\ last.name = "OP_CXKK"
    /\ opcode = 52992
    /\ drawn = 255
    /\ registers[REGISTER_VF] = 0
    /\ registers[0] = 255

\* C14: Fx0A executed while all 16 keypad entries are unpressed leaves pc
\* on the Fx0A instruction and register x unchanged, on every such step;
\* executed while some key is pressed it leaves a pressed key's index in
\* register x and pc advanced by 2.
C14_KeyWait ==
    [][ last'.name = "OP_FX0A" =>
          LET x == XOf(opcode')
          IN  IF \A k \in 0..15 : keypad[k] = 0
              THEN /\ pcRegister' = pcRegister
                   /\ registers'[x] = registers[x]
              ELSE /\ \E k \in 0..15 : keypad[k] # 0 /\ registers'[x] = k
                   /\ pcRegister' = (pcRegister + 2) % 65536 ]_vars

\* The sprite Dxyn draws: the n bytes of `mem` from address I, each 8
\* horizontal pixels, most significant bit leftmost.
NOf(op) == op % 16
SpriteDefined(mem, I, n) ==
    \A r \in 0..(n - 1) : ((I + r) % 4096) \in DOMAIN mem
SpriteBit(mem, I, r, c) ==
    (mem[(I + r) % 4096] \div <<128, 64, 32, 16, 8, 4, 2, 1>>[c + 1]) % 2
\* The display cells (row-major, 64 to a row, 32 rows) the sprite's set
\* bits fall on when drawn at (vx, vy), wrapping at the screen edges.
SpriteCells(mem, I, n, vx, vy) ==
    { ((vy + r) % 32) * 64 + ((vx + c) % 64) :
          <<r, c>> \in { rc \in (0..(n - 1)) \X (0..7) :
                            SpriteBit(mem, I, rc[1], rc[2]) = 1 } }

\* C15: Dxyn executed on a cleared framebuffer leaves exactly the cells of
\* the sprite's set bits on and VF = 0; Dxyn executed again with the same
\* index register, sprite bytes, Vx and Vy leaves the framebuffer cleared
\* and, when the sprite has a set bit, VF = 1 (x and y below 15).
C15_DrawTwiceRestores ==
    [][ (/\ last'.name = "OP_DXYN"
         /\ XOf(opcode') <= 14 /\ YOf(opcode') <= 14
         /\ SpriteDefined(memory, indexRegister, NOf(opcode'))) =>
          LET cells == SpriteCells(memory, indexRegister, NOf(opcode'),
                                   registers[XOf(opcode')],
                                   registers[YOf(opcode')])
          IN  /\ display = ClearedDisplay =>
                    /\ DOMAIN display' = cells
                    /\ registers'[REGISTER_VF] = 0
              /\ (/\ last.name = "OP_DXYN"
                  /\ opcode = opcode'
                  /\ DOMAIN display = cells) =>
                    /\ display' = ClearedDisplay
                    /\ cells # {} => registers'[REGISTER_VF] = 1 ]_vars

\* C16: Fx55 with x = 15 executed right after Annn leaves the 16 memory
\* bytes at nnn..nnn+15 (modulo 4096) equal to V0..V15 in order; Fx65 with
\* x = 15 leaves V0..V15 equal to the 16 memory bytes from the index
\* register, so that after Annn, Fx55, any overwriting of the registers and
\* Fx65 the registers are those that were stored.
C16_StoreLoadRoundTrip ==
    [][ /\ (/\ last'.name = "OP_FX55" /\ XOf(opcode') = 15
            /\ last.name = "OP_ANNN") =>
              \A i \in 0..15 :
                  /\ (((opcode % 4096) + i) % 4096) \in DOMAIN memory'
                  /\ memory'[((opcode % 4096) + i) % 4096] = registers[i]
        /\ (/\ last'.name = "OP_FX65" /\ XOf(opcode') = 15
            /\ \A i \in 0..15 :
                   ((indexRegister + i) % 4096) \in DOMAIN memory) =>
              \A i \in 0..15 :
                  registers'[i] = memory[(indexRegister + i) % 4096] ]_vars

\* A timer tick: each timer that is not 0 goes down by exactly 1, a timer
\* at 0 stays 0, and nothing of the instruction state changes.
TimerTick ==
    /\ timer' = (IF timer > 0 THEN timer - 1 ELSE 0)
    /\ soundTimer' = (IF soundTimer > 0 THEN soundTimer - 1 ELSE 0)
    /\ UNCHANGED <<memory, registers, pcRegister, indexRegister, stack, sp,
                   keypad, display, opcode>>

\* C17: the machine offers a timer tick, independent of instruction
\* execution: whenever a timer is not 0 (and the machine may still act) an
\* operation of the machine is possible that is a timer tick, so that 30
\* of them take a delay timer of 30 to 0 through 29, 28, ..., and further
\* ones leave it at 0.
C17_TimerTickOffered ==
    (steps < MaxSteps /\ (timer > 0 \/ soundTimer > 0))
        => ENABLED (NextTimer /\ TimerTick)

\* C18: with x in 0..14 and any y, y = 15 included, 8xy5 leaves register x
\* equal to (Vx - Vy) mod 256 and 8xy7 leaves it equal to (Vy - Vx) mod 256,
\* Vx and Vy being the register values before the instruction began.
C18_SubResultsFromOldValues ==
    [][ /\ (last'.name = "OP_8XY5" /\ XOf(opcode') <= 14) =>
              registers'[XOf(opcode')] =
                  (registers[XOf(opcode')] - registers[YOf(opcode')]) % 256
        /\ (last'.name = "OP_8XY7" /\ XOf(opcode') <= 14) =>
              registers'[XOf(opcode')] =
                  (registers[YOf(opcode')] - registers[XOf(opcode')]) % 256
      ]_vars

\* C19: with x = 15 each of 8xy4, 8xy5, 8xy6, 8xy7 and 8xyE leaves in
\* register 15 its flag, 0 or 1, as given by the operand values before the
\* instruction: the carry of VF + Vy, VF > Vy, bit 0 of VF, Vy > VF, bit 7
\* of VF.
C19_FlagWinsOnVF ==
    [][ XOf(opcode') = 15 =>
          LET vf == registers[REGISTER_VF]
              vy == registers[YOf(opcode')]
              after == registers'[REGISTER_VF]
          IN  /\ last'.name = "OP_8XY4" =>
                    after = (IF vf + vy > 255 THEN 1 ELSE 0)
              /\ last'.name = "OP_8XY5" =>
                    after = (IF vf > vy THEN 1 ELSE 0)
              /\ last'.name = "OP_8XY6" => after = vf % 2
              /\ last'.name = "OP_8XY7" =>
                    after = (IF vy > vf THEN 1 ELSE 0)
              /\ last'.name = "OP_8XYE" => after = vf \div 128 ]_vars

\* The calls and returns so far are well nested with at most 15 calls
\* outstanding at any time.
WellNested == ~unmatched /\ deepest <= 15

\* C20: on a machine that started fresh, while the calls and returns are
\* well nested with at most 15 calls outstanding at any time, the stack
\* pointer equals the number of calls outstanding (so it is 0 once all have
\* returned), and each 00EE sets pc to the address saved by the most recent
\* call not yet returned from.
C20_StackIsLifo ==
    /\ [](WellNested => sp = outstanding)
    /\ [](WellNested /\ outstanding = 0 => sp = 0)
    /\ [][ (last'.name = "OP_00EE" /\ WellNested') =>
              /\ saved # << >>
              /\ pcRegister' = saved[Len(saved)] ]_vars

\* C20 witness: 15 calls were nested, the first at 0x200 and 14 at 0x300,
\* and two have returned to 0x302.
C20_Witness ==
    /\ last.name = "OP_00EE"
    /\ prev.name = "OP_00EE"
    /\ WellNested
    /\ deepest = 15
    /\ outstanding = 13
    /\ sp = 13
    /\ saved[1] = 514
    /\ pcRegister = 770

====
